---- MODULE Spec2Model ----
(***************************************************************************)
(* The core of the trading assistant.                                      *)
(*                                                                         *)
(* The performance ledger (PerformanceTracker): one JSON file per calendar *)
(* month, loaded in full and rewritten in full by every mutating           *)
(* operation, guarded by one sync.RWMutex.                                 *)
(*                                                                         *)
(* Spec          : the ledger's operations as whole handlers, one call at  *)
(*                 a time, in an empty data directory.                     *)
(* ConcSpec      : the same handlers split at their lock, load and save    *)
(*                 steps, run by several goroutines.                       *)
(* PartitionSpec : the ledger's reads in a data directory with the         *)
(*                 partitions of earlier months.                           *)
(* LiveSpec      : the goroutines of ConcSpec under a fair scheduler and a *)
(*                 mutex that serves a starving writer.                    *)
(* SessionSpec   : a tracker that may have been constructed in the month   *)
(*                 before the first call, closed by one GetMetrics.        *)
(* DrawdownSpec  : one call of calculateMaxDrawdown.                       *)
(*                                                                         *)
(* The risk manager (RiskManager) and the normalizer of the model's        *)
(* response (parseRecommendations) are functions of their arguments.       *)
(*                                                                         *)
(* RiskSpec      : one call of ValidateTrade or ValidatePortfolio.         *)
(* ParseSpec     : one call of parseRecommendations.                       *)
(***************************************************************************)
EXTENDS Integers, Sequences, FiniteSets, TLC

\* ------------------------------------------------------------------ bounds

\* Last clock reading that is explored.
MaxTime == 1

\* Largest advance of the wall clock between two consecutive readings.
MaxAdvance == 1

\* Clock ticks per second: time.Now().Unix() is the reading divided by it,
\* time.Now().Nanosecond() the remainder.
TicksPerSec == 2

\* Largest number of records one partition holds.
MaxRecords == 2

\* Clock ticks per calendar month (time.Format("2006_01") of a reading).
TicksPerMonth == 2 * TicksPerSec

\* Clock ticks per day (t.AddDate(0, 0, -days) is days * TicksPerDay before t).
TicksPerDay == TicksPerSec

Times == 0..MaxTime

Months == 0..(MaxTime \div TicksPerMonth)

MonthOf(t) == t \div TicksPerMonth

\* The ids generateRecordID can produce within the explored clock range.
Ids == (0..(MaxTime \div TicksPerSec)) \X (0..(TicksPerSec - 1))

\* Candidates handed to RecordRecommendation (TradeRecommendation values).
Candidates ==
  { [ticker |-> "SPY", strategy |-> "iron condor"],
    [ticker |-> "QQQ", strategy |-> "credit spread"] }

\* Realised profits handed to UpdateTradeResult.
Profits == {-50, 100}

\* Outcomes of os.WriteFile: written; failed before the file was opened;
\* failed after the file was truncated.
WriteOutcomes == {"ok", "failOpen", "failWrite"}

\* ------------------------------------------------------- values and files

\* A nil pointer is the empty sequence, a pointer to v is <<v>>.
Nil == <<>>

Ptr(v) == <<v>>

NoFile == [kind |-> "absent", items |-> <<>>]

Malformed == [kind |-> "malformed", items |-> <<>>]

JsonNull == [kind |-> "null", items |-> <<>>]

JsonArray(rs) == [kind |-> "array", items |-> rs]

\* A file that exists and that os.ReadFile fails to read.
Unreadable == [kind |-> "unreadable", items |-> <<>>]

\* os.ReadFile(file): the data, whether it failed and whether the failure is
\* that the file does not exist.
ReadFile(file) ==
  [ data |-> file,
    err |-> file.kind \in {"absent", "unreadable"},
    notExist |-> file.kind = "absent" ]

\* json.MarshalIndent of a []*RecommendationRecord: a nil slice is written as
\* null, anything else as an array.  Every slice of the program that has no
\* element is nil (it comes from `var records`, or from decoding null).
MarshalIndent(records) ==
  IF records = <<>> THEN JsonNull ELSE JsonArray(records)

\* json.Unmarshal into a []*RecommendationRecord.
Unmarshal(data) ==
  IF data.kind = "malformed"
    THEN [records |-> <<>>, err |-> TRUE]
    ELSE [records |-> data.items, err |-> FALSE]

\* fmt.Sprintf("rec_%d_%d", time.Now().Unix(), time.Now().Nanosecond()):
\* two readings of the clock, t1 then t2.
generateRecordID(t1, t2) == <<t1 \div TicksPerSec, t2 % TicksPerSec>>

NewRecord(id, ts, rec) ==
  [ id |-> id,
    timestamp |-> ts,
    recommendation |-> rec,
    executed |-> FALSE,
    executionTime |-> Nil,
    exitTime |-> Nil,
    actualProfit |-> Nil,
    status |-> "pending" ]

\* ------------------------------------------------------------ float64 values

\* A float64 is a fraction n/d in lowest terms, an infinity (n its sign) or
\* NaN.  The arithmetic below is exact: the numbers handed in are small
\* integers and hundredths, for which the order of two results is the order of
\* their float64 roundings.
RECURSIVE GCD(_, _)
GCD(a, b) == IF b = 0 THEN a ELSE GCD(b, a % b)

Sign(i) == IF i > 0 THEN 1 ELSE IF i < 0 THEN 0 - 1 ELSE 0

Magnitude(i) == IF i < 0 THEN 0 - i ELSE i

Fin(n, d) ==
  LET g == GCD(Magnitude(n), d)
  IN [k |-> "fin", n |-> n \div g, d |-> d \div g]

NaN == [k |-> "nan", n |-> 0, d |-> 1]

Inf(sign) == [k |-> "inf", n |-> sign, d |-> 1]

\* x + y
FAdd(x, y) ==
  CASE x.k = "nan" \/ y.k = "nan" -> NaN
    [] x.k = "inf" /\ y.k = "inf" -> IF x.n = y.n THEN x ELSE NaN
    [] x.k = "inf" -> x
    [] y.k = "inf" -> y
    [] OTHER -> Fin(x.n * y.d + y.n * x.d, x.d * y.d)

\* x - y
FSub(x, y) == FAdd(x, [y EXCEPT !.n = 0 - @])

\* x * y
FMul(x, y) ==
  CASE x.k = "nan" \/ y.k = "nan" -> NaN
    [] x.k = "inf" \/ y.k = "inf" ->
         IF x.n = 0 \/ y.n = 0 THEN NaN ELSE Inf(Sign(x.n) * Sign(y.n))
    [] OTHER -> Fin(x.n * y.n, x.d * y.d)

\* x / y.  A zero divisor is +0: the divisors of the program are an absolute
\* value, a positive portfolio value, a positive limit, or the sum rrRatio + 1.
FDiv(x, y) ==
  CASE x.k = "nan" \/ y.k = "nan" -> NaN
    [] x.k = "inf" /\ y.k = "inf" -> NaN
    [] x.k = "inf" -> Inf(IF y.n < 0 THEN 0 - x.n ELSE x.n)
    [] y.k = "inf" -> Fin(0, 1)
    [] y.n = 0 -> IF x.n = 0 THEN NaN ELSE Inf(Sign(x.n))
    [] OTHER -> Fin(x.n * y.d * Sign(y.n), x.d * Magnitude(y.n))

\* x < y: false when either is NaN.
FLess(x, y) ==
  CASE x.k = "nan" \/ y.k = "nan" -> FALSE
    [] x.k = "inf" /\ y.k = "inf" -> x.n < y.n
    [] x.k = "inf" -> x.n < 0
    [] y.k = "inf" -> y.n > 0
    [] OTHER -> x.n * y.d < y.n * x.d

\* math.Abs
MathAbs(x) == [x EXCEPT !.n = Magnitude(@)]

\* math.Min: -Inf if either is -Inf, else NaN if either is NaN, else the
\* smaller.
MathMin(x, y) ==
  CASE x = Inf(0 - 1) \/ y = Inf(0 - 1) -> Inf(0 - 1)
    [] x.k = "nan" \/ y.k = "nan" -> NaN
    [] OTHER -> IF FLess(x, y) THEN x ELSE y

VARIABLES
  now,          \* the last reading of the wall clock
  files,        \* the data directory: month -> file content
  currentFile,  \* pt.currentFile: the month chosen at construction
  last,         \* the call that returned last, with its arguments and result
  mu,           \* pt.mu: the goroutines holding it for writing and for
                \* reading, those waiting in Lock and those waiting in RLock
  pc,           \* per goroutine, the place its call has reached
  req,          \* per goroutine, the operation it is calling
  loc,          \* per goroutine, the locals of its call
  ledger,       \* the records the partition holds when calls take effect one
                \* at a time, in the order of their saves
  failed,       \* whether some call has returned an error
  query,        \* the GetMetrics call that returned last, with its result
  risk,         \* the RiskManager call that returned last, with its result
  norm          \* the parseRecommendations call that returned last

\* The variables of the goroutines.
conc == <<mu, pc, req, loc, ledger, failed>>

\* The variables of the calls that do not change the ledger.
pure == <<query, risk, norm>>

\* The variables of the ledger.
store == <<now, files, currentFile, last>>

vars ==
  <<now, files, currentFile, last, mu, pc, req, loc, ledger, failed, query,
    risk, norm>>

\* -------------------------------------------------------------- the store

\* A load that takes every failure to read for a missing file.
loadRecordsLenient(file) ==
  LET rd == ReadFile(file)
  IN IF rd.err
       THEN [records |-> <<>>, err |-> FALSE]
       ELSE Unmarshal(rd.data)

\* loadRecords: a missing file is no records and no error, any other failure
\* to read is an error.
loadRecords(file) ==
  LET rd == ReadFile(file)
  IN IF rd.err
       THEN [records |-> <<>>, err |-> ~rd.notExist]
       ELSE Unmarshal(rd.data)

\* saveRecords: the content of the file after os.WriteFile(currentFile, ...)
\* ended with outcome w.
saveRecords(file, records, w) ==
  CASE w = "ok" -> MarshalIndent(records)
    [] w = "failOpen" -> file
    [] w = "failWrite" -> Malformed

\* The error a writer drops.
WriteErrorDropped(w) == FALSE

\* The error os.WriteFile, and with it saveRecords, returns.
WriteError(w) == w # "ok"

\* The index of the first record whose id is recordID, 0 when there is none
\* (the loops of UpdateExecution and UpdateTradeResult break at the first).
FirstIndex(records, recordID) ==
  LET hits == {i \in 1..Len(records) : records[i].id = recordID}
  IN IF hits = {} THEN 0 ELSE CHOOSE i \in hits : \A j \in hits : i <= j

\* The loop body of UpdateExecution on the record it found.
MarkExecution(r, executed, t) ==
  IF executed
    THEN [r EXCEPT !.executed = TRUE,
                   !.executionTime = Ptr(t),
                   !.status = "executed"]
    ELSE [r EXCEPT !.executed = FALSE]

\* A result that also marks the record executed.
MarkResultExecuted(r, profit, t) ==
  [r EXCEPT !.exitTime = Ptr(t),
            !.actualProfit = Ptr(profit),
            !.executed = TRUE,
            !.status = "closed"]

\* The loop body of UpdateTradeResult on the record it found.
MarkResult(r, profit, t) ==
  [r EXCEPT !.exitTime = Ptr(t),
            !.actualProfit = Ptr(profit),
            !.status = "closed"]

ApplyExecution(records, recordID, executed, t) ==
  LET i == FirstIndex(records, recordID)
  IN IF i = 0 THEN records
     ELSE [records EXCEPT ![i] = MarkExecution(records[i], executed, t)]

ApplyResult(records, recordID, profit, t) ==
  LET i == FirstIndex(records, recordID)
  IN IF i = 0 THEN records
     ELSE [records EXCEPT ![i] = MarkResult(records[i], profit, t)]

\* A save that keeps only the new record.
OnlyNewRecord(records, record) == <<record>>

\* records = append(records, record)
AppendRecord(records, record) == Append(records, record)

\* The oldest `limit` records instead of the newest.
HistoryFromStart(records, limit) ==
  IF limit > 0 /\ limit < Len(records)
    THEN SubSeq(records, 1, limit)
    ELSE records

\* The slice GetRecommendationHistory returns.
HistorySlice(records, limit) ==
  IF limit > 0 /\ limit < Len(records)
    THEN SubSeq(records, Len(records) - limit + 1, Len(records))
    ELSE records

\* ------------------------------------------------------- the calls' trace

NoId == <<0, 0>>

NoCandidate == [ticker |-> "", strategy |-> ""]

\* A returned call: its name and arguments, whether it returned an error,
\* whether an update found its record, the records it returned, and the name
\* of the call that returned before it.
Call(after, op, id, executed, profit, limit, rec, err, found, out) ==
  [ after |-> after, op |-> op, id |-> id, executed |-> executed,
    profit |-> profit, limit |-> limit, rec |-> rec, err |-> err,
    found |-> found, out |-> out ]

NoCall ==
  Call("none", "none", NoId, FALSE, 0, 0, NoCandidate, FALSE, FALSE, <<>>)

\* The goroutines that call the tracker.
Procs == {"g1", "g2"}

WriterOps == {"RecordRecommendation", "UpdateExecution", "UpdateTradeResult"}

ReaderOps == {"GetMetrics", "GetRecommendationHistory"}

Updates == {"UpdateExecution", "UpdateTradeResult"}

\* A *TimeframeMetrics with no trade.
NoTimeframe(startDate, endDate) ==
  [ startDate |-> startDate, endDate |-> endDate, tradeCount |-> 0,
    winRate |-> Fin(0, 1), return |-> Fin(0, 1) ]

\* The zero value of the fields of PerformanceMetrics that are modelled.
NoMetrics ==
  [ totalRecommendations |-> 0, executedTrades |-> 0, winningTrades |-> 0,
    losingTrades |-> 0, winRate |-> Fin(0, 1), averageReturn |-> Fin(0, 1),
    totalReturn |-> Fin(0, 1), maxDrawdown |-> Fin(0, 1),
    byTimeframe |-> [ daily |-> NoTimeframe(0, 0),
                      weekly |-> NoTimeframe(0, 0),
                      monthly |-> NoTimeframe(0, 0) ] ]

\* The locals of a call: the records it loaded, the record it built, the
\* error and the records or metrics it returns.
NoLocal ==
  [ records |-> <<>>, record |-> <<>>, err |-> FALSE, out |-> <<>>,
    metrics |-> NoMetrics ]

\* No GetMetrics call has returned.  `returns` is the slice of profits the
\* call collects and hands to calculateMaxDrawdown.
NoQuery ==
  [ op |-> "none", returned |-> FALSE, startDate |-> 0, endDate |-> 0,
    returns |-> <<>>, err |-> FALSE, metrics |-> NoMetrics ]

\* No call of the risk manager has returned.
NoValidation ==
  [ op |-> "none", returned |-> FALSE, trades |-> <<>>,
    portfolio |-> [kind |-> "absent", v |-> [k |-> "fin", n |-> 0, d |-> 1]],
    result |-> [ isValid |-> TRUE, violations |-> <<>>,
                 riskScore |-> [k |-> "fin", n |-> 0, d |-> 1],
                 requiresApproval |-> FALSE ] ]

\* No parseRecommendations call has returned.
NoParse ==
  [ op |-> "none", returned |-> FALSE, response |-> <<>>,
    recommendations |-> <<>>, err |-> FALSE ]

\* --------------------------------------------------------------- handlers

\* No goroutine has called the tracker.
GoroutinesInit ==
  /\ mu = [writers |-> {}, readers |-> {}, waiting |-> {}, blocked |-> {}]
  /\ pc = [p \in Procs |-> "idle"]
  /\ req = [p \in Procs |-> "none"]
  /\ loc = [p \in Procs |-> NoLocal]
  /\ ledger = <<>>
  /\ failed = FALSE

\* The ledger after NewPerformanceTracker in an empty data directory, before
\* any call.
StoreInit ==
  /\ now = 0
  /\ currentFile = MonthOf(0)
  /\ files = [m \in Months |-> NoFile]
  /\ last = NoCall
  /\ GoroutinesInit

Init ==
  /\ StoreInit
  /\ query = NoQuery
  /\ risk = NoValidation
  /\ norm = NoParse

\* RecordRecommendation(rec): the clock is read for the id (twice) and for the
\* timestamp, after advancing by d1, d2 and d3.
RecordRecommendation(rec, d1, d2, d3, w) ==
  LET t1 == now + d1
      t2 == t1 + d2
      t3 == t2 + d3
      record == NewRecord(generateRecordID(t1, t2), t3, rec)
      ld == loadRecords(files[currentFile])
      records == AppendRecord(ld.records, record)
  IN /\ t3 <= MaxTime
     /\ now' = t3
     /\ UNCHANGED <<currentFile, conc, pure>>
     /\ IF ld.err
          THEN /\ UNCHANGED files
               /\ last' = Call(last.op, "RecordRecommendation", NoId, FALSE, 0, 0, rec,
                               TRUE, FALSE, <<>>)
          ELSE /\ Len(ld.records) < MaxRecords
               /\ files' = [files EXCEPT ![currentFile] =
                              saveRecords(files[currentFile], records, w)]
               /\ last' = Call(last.op, "RecordRecommendation", NoId, FALSE, 0, 0, rec,
                               WriteError(w), FALSE,
                               IF WriteError(w) THEN <<>> ELSE <<record>>)

\* UpdateExecution(recordID, executed): the clock is read only when the record
\* is found and executed is true.
UpdateExecution(recordID, executed, d, w) ==
  LET ld == loadRecords(files[currentFile])
      found == FirstIndex(ld.records, recordID) # 0
      reads == ~ld.err /\ found /\ executed
      t == IF reads THEN now + d ELSE now
      records == ApplyExecution(ld.records, recordID, executed, t)
  IN /\ t <= MaxTime
     /\ now' = t
     /\ UNCHANGED <<currentFile, conc, pure>>
     /\ IF ld.err
          THEN /\ UNCHANGED files
               /\ last' = Call(last.op, "UpdateExecution", recordID, executed, 0, 0,
                               NoCandidate, TRUE, FALSE, <<>>)
          ELSE /\ files' = [files EXCEPT ![currentFile] =
                              saveRecords(files[currentFile], records, w)]
               /\ last' = Call(last.op, "UpdateExecution", recordID, executed, 0, 0,
                               NoCandidate, WriteError(w), found, <<>>)

\* UpdateTradeResult(recordID, profit): the clock is read when the record is
\* found.
UpdateTradeResult(recordID, profit, d, w) ==
  LET ld == loadRecords(files[currentFile])
      found == FirstIndex(ld.records, recordID) # 0
      reads == ~ld.err /\ found
      t == IF reads THEN now + d ELSE now
      records == ApplyResult(ld.records, recordID, profit, t)
  IN /\ t <= MaxTime
     /\ now' = t
     /\ UNCHANGED <<currentFile, conc, pure>>
     /\ IF ld.err
          THEN /\ UNCHANGED files
               /\ last' = Call(last.op, "UpdateTradeResult", recordID, FALSE, profit, 0,
                               NoCandidate, TRUE, FALSE, <<>>)
          ELSE /\ files' = [files EXCEPT ![currentFile] =
                              saveRecords(files[currentFile], records, w)]
               /\ last' = Call(last.op, "UpdateTradeResult", recordID, FALSE, profit, 0,
                               NoCandidate, WriteError(w), found, <<>>)

\* GetRecommendationHistory(limit)
GetRecommendationHistory(limit) ==
  LET ld == loadRecords(files[currentFile])
  IN /\ UNCHANGED <<now, files, currentFile, conc, pure>>
     /\ last' = Call(last.op, "GetRecommendationHistory", NoId, FALSE, 0, limit,
                     NoCandidate, ld.err, FALSE,
                     IF ld.err THEN <<>> ELSE HistorySlice(ld.records, limit))

Advances == 0..MaxAdvance

Limits == 0..(MaxRecords + 1)

Next ==
  \/ \E rec \in Candidates, d1, d2, d3 \in Advances, w \in WriteOutcomes :
       RecordRecommendation(rec, d1, d2, d3, w)
  \/ \E id \in Ids, e \in BOOLEAN, d \in Advances, w \in WriteOutcomes :
       UpdateExecution(id, e, d, w)
  \/ \E id \in Ids, p \in Profits, d \in Advances, w \in WriteOutcomes :
       UpdateTradeResult(id, p, d, w)
  \/ \E limit \in Limits : GetRecommendationHistory(limit)

Spec == Init /\ [][Next]_vars

\* ------------------------------------------------------------ the reads

\* The file of month m in the data directory.
FileAt(dir, m) == IF m \in DOMAIN dir THEN dir[m] ELSE NoFile

\* The loop of loadRecordsForPeriod from `current` on: a file that cannot be
\* read or decoded is skipped; the records strictly between startDate and
\* endDate are kept; current.AddDate(0, 1, 0) is one month later.
RECURSIVE PeriodFrom(_, _, _, _)
PeriodFrom(dir, current, startDate, endDate) ==
  IF current > endDate
    THEN <<>>
    ELSE LET rd == ReadFile(FileAt(dir, MonthOf(current)))
             ld == IF rd.err
                     THEN [records |-> <<>>, err |-> TRUE]
                     ELSE Unmarshal(rd.data)
             kept == IF ld.err
                       THEN <<>>
                       ELSE SelectSeq(ld.records,
                              LAMBDA r : /\ r.timestamp > startDate
                                         /\ r.timestamp < endDate)
         IN kept \o PeriodFrom(dir, current + TicksPerMonth, startDate, endDate)

loadRecordsForPeriod(dir, startDate, endDate) ==
  PeriodFrom(dir, startDate, startDate, endDate)

\* The records GetMetrics counts as trades with a result.
Realised(records) ==
  SelectSeq(records, LAMBDA r : r.executed /\ r.actualProfit # Nil)

RECURSIVE SumProfit(_)
SumProfit(records) ==
  IF records = <<>>
    THEN 0
    ELSE Head(records).actualProfit[1] + SumProfit(Tail(records))

\* returns = append(returns, *rec.ActualProfit) over the loaded records.
Returns(records) ==
  [i \in 1..Len(Realised(records)) |->
     Fin(Realised(records)[i].actualProfit[1], 1)]

\* The loop of calculateMaxDrawdown over the returns that are left.
RECURSIVE DrawdownFrom(_, _, _, _)
DrawdownFrom(returns, cumulative, peak, maxDrawdown) ==
  IF returns = <<>>
    THEN maxDrawdown
    ELSE LET c == FAdd(cumulative, Head(returns))
             p == IF FLess(peak, c) THEN c ELSE peak
             drawdown == FDiv(FSub(p, c), p)
         IN DrawdownFrom(Tail(returns), c, p,
                         IF FLess(maxDrawdown, drawdown)
                           THEN drawdown ELSE maxDrawdown)

calculateMaxDrawdown(returns) ==
  IF Len(returns) = 0
    THEN Fin(0, 1)
    ELSE FMul(DrawdownFrom(returns, Fin(0, 1), Fin(0, 1), Fin(0, 1)),
              Fin(100, 1))

\* A rate taken without looking at the number of trades.
RateUnguarded(wins, trades) ==
  FMul(FDiv(Fin(wins, 1), Fin(trades, 1)), Fin(100, 1))

\* float64(wins) / float64(trades) * 100 when there is a trade, else the zero
\* value the field starts with.
Rate(wins, trades) ==
  IF trades > 0
    THEN FMul(FDiv(Fin(wins, 1), Fin(trades, 1)), Fin(100, 1))
    ELSE Fin(0, 1)

\* calculateTimeframeMetrics(records, period, days) when time.Now() reads t.
calculateTimeframeMetrics(records, days, t) ==
  LET endDate == t
      startDate == endDate - days * TicksPerDay
      inside == SelectSeq(Realised(records),
                          LAMBDA r : /\ r.timestamp > startDate
                                     /\ r.timestamp < endDate)
      wins == Len(SelectSeq(inside, LAMBDA r : r.actualProfit[1] > 0))
  IN [ startDate |-> startDate,
       endDate |-> endDate,
       tradeCount |-> Len(inside),
       winRate |-> Rate(wins, Len(inside)),
       return |-> Fin(SumProfit(inside), 1) ]

\* The *PerformanceMetrics GetMetrics builds from the loaded records when the
\* three calls of calculateTimeframeMetrics read the clock at t1, t2 and t3
\* (SharpeRatio and ByStrategy are left out).
Metrics(records, t1, t2, t3) ==
  LET executed == Len(SelectSeq(records, LAMBDA r : r.executed))
      wins ==
        Len(SelectSeq(Realised(records), LAMBDA r : r.actualProfit[1] > 0))
      totalReturn == Fin(SumProfit(Realised(records)), 1)
  IN [ totalRecommendations |-> Len(records),
       executedTrades |-> executed,
       winningTrades |-> wins,
       losingTrades |->
         Len(SelectSeq(Realised(records), LAMBDA r : r.actualProfit[1] < 0)),
       winRate |-> Rate(wins, executed),
       averageReturn |->
         IF executed > 0 THEN FDiv(totalReturn, Fin(executed, 1))
                         ELSE Fin(0, 1),
       totalReturn |-> totalReturn,
       maxDrawdown |-> calculateMaxDrawdown(Returns(records)),
       byTimeframe |->
         [ daily |-> calculateTimeframeMetrics(records, 1, t1),
           weekly |-> calculateTimeframeMetrics(records, 7, t2),
           monthly |-> calculateTimeframeMetrics(records, 30, t3) ] ]

\* Instants handed to GetMetrics.
QueryTimes == (0 - 1)..(MaxTime + 1)

\* Months of history in the data directory before the tracker was built.
MaxPast == 2

PastMonths == (0 - MaxPast)..(0 - 1)

\* The timestamps of the records a tracker built in month m has written
\* before this one was built: it writes to the partition of m for as long as
\* it runs.
PastTimes(m) == (m * TicksPerMonth)..(0 - 1)

\* A record written at clock reading ts and left pending.
PastRecord(ts) ==
  NewRecord(generateRecordID(ts, ts), ts,
            [ticker |-> "SPY", strategy |-> "iron condor"])

\* What the partition of a past month m can be: never created, unreadable,
\* cut short by a failed write, or holding a record.
PastFiles(m) ==
  {NoFile, Unreadable, Malformed}
    \cup {JsonArray(<<PastRecord(ts)>>) : ts \in PastTimes(m)}

\* The tracker right after NewPerformanceTracker in a data directory with
\* history; the partition of the current month is missing, unreadable or cut
\* short.
PartitionInit ==
  /\ now = 0
  /\ currentFile = MonthOf(0)
  /\ files \in [PastMonths \cup Months -> {NoFile, Unreadable, Malformed}
                                           \cup UNION {PastFiles(m) : m \in PastMonths}]
  /\ \A m \in PastMonths : files[m] \in PastFiles(m)
  /\ \A m \in Months : files[m] \in {NoFile, Unreadable, Malformed}
  /\ last = NoCall
  /\ GoroutinesInit
  /\ query = NoQuery
  /\ risk = NoValidation
  /\ norm = NoParse

\* GetMetrics(startDate, endDate): loadRecordsForPeriod returns no error, so
\* neither does GetMetrics.  The clock is read once for each of the three
\* timeframes, after advancing by d1, d2 and d3.
GetMetrics(startDate, endDate, d1, d2, d3) ==
  LET t1 == now + d1
      t2 == t1 + d2
      t3 == t2 + d3
      records == loadRecordsForPeriod(files, startDate, endDate)
  IN /\ t3 <= MaxTime
     /\ now' = t3
     /\ query' = [ op |-> "GetMetrics", returned |-> TRUE,
                   startDate |-> startDate, endDate |-> endDate,
                   returns |-> Returns(records), err |-> FALSE,
                   metrics |-> Metrics(records, t1, t2, t3) ]
     /\ UNCHANGED <<files, currentFile, last, conc, risk, norm>>

\* Instants handed to GetMetrics in a data directory with history.
PeriodTimes == (0 - MaxPast * TicksPerMonth - 1)..0

\* GetMetrics changes nothing but its own result, so one call from each
\* state of the directory and of the history reaches every result.
PartitionNext ==
  \/ /\ ~query.returned
     /\ \E startDate, endDate \in PeriodTimes :
          GetMetrics(startDate, endDate, 0, 0, 0)
  \/ \E limit \in Limits : GetRecommendationHistory(limit)

PartitionSpec == PartitionInit /\ [][PartitionNext]_vars

\* ------------------------------------------------------------- goroutines

\* A writer that takes the mutex as a reader does.
ExclusiveAsShared(m) == m.writers = {}

\* A writer that does not wait for the mutex.
ExclusiveUnguarded(m) == TRUE

\* pt.mu.Lock() returns when nobody holds the mutex.
Exclusive(m) == m.writers = {} /\ m.readers = {}

\* pt.mu.RLock() returns at once when nobody holds the mutex for writing and
\* no call of Lock is waiting for it (a blocked Lock call keeps new readers
\* from acquiring a sync.RWMutex).
Shared(m) == m.writers = {} /\ m.waiting = {}

\* A writer that keeps the mutex when it returns an error.
HeldOnError(m, p, err) == IF err THEN m.writers ELSE m.writers \ {p}

\* The goroutines that hold the mutex for writing after the deferred
\* pt.mu.Unlock() of p, which runs on every return, with or without an error.
Released(m, p, err) == m.writers \ {p}

\* The goroutines that have called RecordRecommendation and not returned.
Recording == {p \in Procs : pc[p] # "idle" /\ req[p] = "RecordRecommendation"}

\* A goroutine calls an operation.
Begin(p, op) ==
  /\ pc[p] = "idle"
  /\ op = "RecordRecommendation" =>
       Len(files[currentFile].items) + Cardinality(Recording) < MaxRecords
  /\ pc' = [pc EXCEPT ![p] = "lock"]
  /\ req' = [req EXCEPT ![p] = op]
  /\ UNCHANGED <<now, files, currentFile, last, mu, loc, ledger, failed, pure>>

\* A writer calls pt.mu.Lock(): from here on it waits for the mutex.
Announce(p) ==
  /\ pc[p] = "lock"
  /\ req[p] \in WriterOps
  /\ mu' = [mu EXCEPT !.waiting = @ \cup {p}]
  /\ pc' = [pc EXCEPT ![p] = "wait"]
  /\ UNCHANGED <<now, files, currentFile, last, req, loc, ledger, failed, pure>>

\* pt.mu.Lock() returns.
Lock(p) ==
  /\ pc[p] = "wait"
  /\ Exclusive(mu)
  /\ mu' = [mu EXCEPT !.writers = @ \cup {p}, !.waiting = @ \ {p}]
  /\ pc' = [pc EXCEPT ![p] = "load"]
  /\ UNCHANGED <<now, files, currentFile, last, req, loc, ledger, failed, pure>>

\* A reader calls pt.mu.RLock(): it returns at once, or the reader waits
\* until the writer it waits behind unlocks.
RLock(p) ==
  /\ pc[p] = "lock"
  /\ req[p] \in ReaderOps
  /\ IF Shared(mu)
       THEN /\ mu' = [mu EXCEPT !.readers = @ \cup {p}]
            /\ pc' = [pc EXCEPT ![p] = "read"]
       ELSE /\ mu' = [mu EXCEPT !.blocked = @ \cup {p}]
            /\ pc' = [pc EXCEPT ![p] = "rwait"]
  /\ UNCHANGED <<now, files, currentFile, last, req, loc, ledger, failed, pure>>

\* RecordRecommendation up to its loadRecords: the record is built first.
LoadNew(p, rec, d1, d2, d3) ==
  LET t1 == now + d1
      t2 == t1 + d2
      t3 == t2 + d3
      record == NewRecord(generateRecordID(t1, t2), t3, rec)
      ld == loadRecords(files[currentFile])
  IN /\ pc[p] = "load"
     /\ req[p] = "RecordRecommendation"
     /\ t3 <= MaxTime
     /\ now' = t3
     /\ loc' = [loc EXCEPT ![p] = [@ EXCEPT !.records = ld.records,
                                            !.record = <<record>>,
                                            !.err = ld.err]]
     /\ pc' = [pc EXCEPT ![p] = IF ld.err THEN "unlock" ELSE "save"]
     /\ failed' = (failed \/ ld.err)
     /\ UNCHANGED <<files, currentFile, last, mu, req, ledger, pure>>

\* UpdateExecution and UpdateTradeResult up to their loadRecords.
LoadOld(p) ==
  LET ld == loadRecords(files[currentFile])
  IN /\ pc[p] = "load"
     /\ req[p] \in Updates
     /\ loc' = [loc EXCEPT ![p] = [@ EXCEPT !.records = ld.records,
                                            !.err = ld.err]]
     /\ pc' = [pc EXCEPT ![p] = IF ld.err THEN "unlock" ELSE "save"]
     /\ failed' = (failed \/ ld.err)
     /\ UNCHANGED <<now, files, currentFile, last, mu, req, ledger, pure>>

\* The rest of a writer, from the records it loaded to its saveRecords:
\* `records` is the slice it saves, `effect` what the same call makes of the
\* records that are in effect.
Save(p, records, effect, w) ==
  /\ pc[p] = "save"
  /\ files' = [files EXCEPT ![currentFile] =
                 saveRecords(files[currentFile], records, w)]
  /\ ledger' = IF WriteError(w) THEN ledger ELSE effect
  /\ failed' = (failed \/ WriteError(w))
  /\ loc' = [loc EXCEPT ![p] = [@ EXCEPT !.err = WriteError(w)]]
  /\ pc' = [pc EXCEPT ![p] = "unlock"]
  /\ UNCHANGED <<currentFile, last, mu, req, pure>>

SaveNew(p, w) ==
  /\ req[p] = "RecordRecommendation"
  /\ Save(p, AppendRecord(loc[p].records, loc[p].record[1]),
          AppendRecord(ledger, loc[p].record[1]), w)
  /\ UNCHANGED now

SaveExecution(p, recordID, executed, d, w) ==
  LET reads == FirstIndex(loc[p].records, recordID) # 0 /\ executed
      t == IF reads THEN now + d ELSE now
  IN /\ req[p] = "UpdateExecution"
     /\ t <= MaxTime
     /\ now' = t
     /\ Save(p, ApplyExecution(loc[p].records, recordID, executed, t),
             ApplyExecution(ledger, recordID, executed, t), w)

SaveResult(p, recordID, profit, d, w) ==
  LET reads == FirstIndex(loc[p].records, recordID) # 0
      t == IF reads THEN now + d ELSE now
  IN /\ req[p] = "UpdateTradeResult"
     /\ t <= MaxTime
     /\ now' = t
     /\ Save(p, ApplyResult(loc[p].records, recordID, profit, t),
             ApplyResult(ledger, recordID, profit, t), w)

\* The deferred pt.mu.Unlock() as a writer returns: the readers that waited
\* behind the writer hold the mutex, their calls of RLock return.
Unlock(p) ==
  /\ pc[p] = "unlock"
  /\ mu' = [mu EXCEPT !.writers = Released(mu, p, loc[p].err),
                      !.readers = @ \cup mu.blocked,
                      !.blocked = {}]
  /\ pc' = [q \in Procs |->
              IF q = p THEN "idle"
              ELSE IF q \in mu.blocked THEN "read" ELSE pc[q]]
  /\ req' = [req EXCEPT ![p] = "none"]
  /\ loc' = [loc EXCEPT ![p] = NoLocal]
  /\ UNCHANGED <<now, files, currentFile, last, ledger, failed, pure>>

\* GetRecommendationHistory between RLock and RUnlock.
ReadHistory(p, limit) ==
  LET ld == loadRecords(files[currentFile])
  IN /\ pc[p] = "read"
     /\ req[p] = "GetRecommendationHistory"
     /\ loc' = [loc EXCEPT ![p] =
                  [@ EXCEPT !.err = ld.err,
                            !.out = IF ld.err THEN <<>>
                                    ELSE HistorySlice(ld.records, limit)]]
     /\ pc' = [pc EXCEPT ![p] = "runlock"]
     /\ failed' = (failed \/ ld.err)
     /\ UNCHANGED <<now, files, currentFile, last, mu, req, ledger, pure>>

\* GetMetrics between RLock and RUnlock.
ReadMetrics(p, startDate, endDate, d1, d2, d3) ==
  LET t1 == now + d1
      t2 == t1 + d2
      t3 == t2 + d3
  IN /\ pc[p] = "read"
     /\ req[p] = "GetMetrics"
     /\ t3 <= MaxTime
     /\ now' = t3
     /\ loc' = [loc EXCEPT ![p] =
                  [@ EXCEPT !.metrics =
                     Metrics(loadRecordsForPeriod(files, startDate, endDate),
                             t1, t2, t3)]]
     /\ pc' = [pc EXCEPT ![p] = "runlock"]
     /\ UNCHANGED <<files, currentFile, last, mu, req, ledger, failed, pure>>

\* The deferred pt.mu.RUnlock() as a reader returns.
RUnlock(p) ==
  /\ pc[p] = "runlock"
  /\ mu' = [mu EXCEPT !.readers = @ \ {p}]
  /\ pc' = [pc EXCEPT ![p] = "idle"]
  /\ req' = [req EXCEPT ![p] = "none"]
  /\ loc' = [loc EXCEPT ![p] = NoLocal]
  /\ UNCHANGED <<now, files, currentFile, last, ledger, failed, pure>>

\* The candidates and profits the goroutines hand in.
SomeCandidates == {c \in Candidates : c.ticker = "SPY"}

SomeProfits == {pr \in Profits : pr > 0}

ConcNext ==
  \/ \E p \in Procs, op \in WriterOps \cup ReaderOps : Begin(p, op)
  \/ \E p \in Procs : Announce(p)
  \/ \E p \in Procs : Lock(p)
  \/ \E p \in Procs : RLock(p)
  \/ \E p \in Procs, rec \in SomeCandidates, d1, d2, d3 \in Advances :
       LoadNew(p, rec, d1, d2, d3)
  \/ \E p \in Procs : LoadOld(p)
  \/ \E p \in Procs, w \in WriteOutcomes : SaveNew(p, w)
  \/ \E p \in Procs, id \in Ids, e \in BOOLEAN, d \in Advances,
        w \in WriteOutcomes : SaveExecution(p, id, e, d, w)
  \/ \E p \in Procs, id \in Ids, pr \in SomeProfits, d \in Advances,
        w \in WriteOutcomes : SaveResult(p, id, pr, d, w)
  \/ \E p \in Procs : Unlock(p)
  \/ \E p \in Procs, limit \in Limits : ReadHistory(p, limit)
  \/ \E p \in Procs, s, e \in QueryTimes : ReadMetrics(p, s, e, 0, 0, 0)
  \/ \E p \in Procs : RUnlock(p)

ConcSpec == Init /\ [][ConcNext]_vars

\* --------------------------------------------------------- fair scheduling

\* A step of goroutine p inside a call other than the return of pt.mu.Lock():
\* the clock stands still, the calls name the id of the first record, the
\* whole history and the range of the explored clock.
Run(p) ==
  \/ Announce(p)
  \/ RLock(p)
  \/ \E rec \in SomeCandidates : LoadNew(p, rec, 0, 0, 0)
  \/ LoadOld(p)
  \/ \E w \in WriteOutcomes : SaveNew(p, w)
  \/ \E e \in BOOLEAN, w \in WriteOutcomes :
       SaveExecution(p, generateRecordID(0, 0), e, 0, w)
  \/ \E pr \in SomeProfits, w \in WriteOutcomes :
       SaveResult(p, generateRecordID(0, 0), pr, 0, w)
  \/ Unlock(p)
  \/ ReadHistory(p, 0)
  \/ ReadMetrics(p, 0, MaxTime, 0, 0, 0)
  \/ RUnlock(p)

LiveNext ==
  \/ \E p \in Procs, op \in WriterOps \cup ReaderOps : Begin(p, op)
  \/ \E p \in Procs : Lock(p)
  \/ \E p \in Procs : Run(p)

\* The scheduler runs every goroutine that can take a step; a call of Lock
\* that can return again and again does return (a sync.Mutex hands the mutex
\* to a waiter that has waited long).  No goroutine has to call the tracker.
Fairness == \A p \in Procs : WF_vars(Run(p)) /\ SF_vars(Lock(p))

LiveSpec == Init /\ [][LiveNext]_vars /\ Fairness

\* --------------------------------------------------------------- a session

\* The months a session touches: the month of the clock and the one before.
SessionMonths == {MonthOf(0) - 1} \cup Months

\* A tracker that NewPerformanceTracker built in the month of the clock, or in
\* the month before and that has run across the turn of the month, in a data
\* directory whose partition of the tracker's month is missing, unreadable or
\* cut short by a failed write.
SessionInit ==
  /\ now = 0
  /\ currentFile \in {MonthOf(0) - 1, MonthOf(0)}
  /\ \E file \in {NoFile, Unreadable, Malformed} :
       files = [m \in SessionMonths |->
                  IF m = currentFile THEN file ELSE NoFile]
  /\ last = NoCall
  /\ GoroutinesInit
  /\ query = NoQuery
  /\ risk = NoValidation
  /\ norm = NoParse

\* A session: calls of the writers, whose writes succeed, and then one call
\* of GetMetrics.
SessionNext ==
  \/ \E d1, d2, d3 \in Advances, rec \in SomeCandidates :
       ~query.returned /\ RecordRecommendation(rec, d1, d2, d3, "ok")
  \/ \E id \in Ids, e \in BOOLEAN, d \in Advances :
       ~query.returned /\ UpdateExecution(id, e, d, "ok")
  \/ \E id \in Ids, p \in Profits, d \in Advances :
       ~query.returned /\ UpdateTradeResult(id, p, d, "ok")
  \/ \E startDate, endDate \in QueryTimes, d1, d2, d3 \in Advances :
       ~query.returned /\ GetMetrics(startDate, endDate, d1, d2, d3)

SessionSpec == SessionInit /\ [][SessionNext]_vars

\* ------------------------------------------------------------ risk manager

\* NewRiskManager(): the only constructor, so the limits of every manager.
NewRiskManager ==
  [ maxPortfolioRiskPercent |-> Fin(2, 1),
    maxPositionSizePercent |-> Fin(1, 2),
    maxDailyLossPercent |-> Fin(1, 1),
    minProbabilityOfProfit |-> Fin(65, 100),
    maxConcentrationPercent |-> Fin(10, 1),
    requireManualApproval |-> TRUE ]

\* Largest number of trades in a basket handed to ValidatePortfolio.
MaxBasket == 3

Tickers == {"SPY", "QQQ"}

Strategies == {"covered call", "iron condor", "naked option", "straddle"}

\* trade.POP, with values below and at the minimum, and above 1.
POPs == {Fin(0, 1), Fin(64, 100), Fin(65, 100), Fin(1, 1), Fin(5, 1)}

\* trade.MaxLoss, in dollars, of either sign and zero.
MaxLosses == {Fin(0 - 1100, 1), Fin(0 - 500, 1), Fin(0 - 100, 1), Fin(0, 1),
              Fin(300, 1)}

\* trade.MaxProfit, in dollars, of either sign and zero.
MaxProfits == {Fin(0 - 200, 1), Fin(0 - 100, 1), Fin(0, 1), Fin(32, 1),
               Fin(33, 1), Fin(200, 1)}

\* The TradeRecommendation values handed to the risk manager (the fields it
\* reads).
Trades ==
  [ ticker : Tickers, strategy : Strategies, pop : POPs, maxLoss : MaxLosses,
    maxProfit : MaxProfits ]

\* The trades of the baskets: ValidatePortfolio reads Ticker and MaxLoss.
BasketTrades ==
  { t \in Trades : /\ t.strategy = "iron condor"
                   /\ t.pop = Fin(65, 100)
                   /\ t.maxProfit = Fin(33, 1) }

RECURSIVE SeqsUpTo(_, _)
SeqsUpTo(S, n) ==
  IF n = 0
    THEN {<<>>}
    ELSE LET shorter == SeqsUpTo(S, n - 1)
         IN shorter \cup {Append(s, x) : s \in shorter, x \in S}

Baskets == SeqsUpTo(BasketTrades, MaxBasket)

\* portfolio["total_value"]: no such key, a value that is no float64, or a
\* float64.
Portfolios ==
  { [kind |-> "absent", v |-> Fin(0, 1)],
    [kind |-> "other", v |-> Fin(0, 1)] }
  \cup { [kind |-> "float64", v |-> Fin(x, 1)] : x \in {0 - 1, 0, 10000, 100000} }

\* portfolioValue, ok := portfolio["total_value"].(float64), and its default.
PortfolioValue(portfolio) ==
  IF portfolio.kind = "float64" /\ FLess(Fin(0, 1), portfolio.v)
    THEN portfolio.v
    ELSE Fin(100000, 1)

\* (math.Abs(trade.MaxLoss) / portfolioValue) * 100
PositionRiskPercent(trade, portfolioValue) ==
  FMul(FDiv(MathAbs(trade.maxLoss), portfolioValue), Fin(100, 1))

PositionViolation(rm, positionRiskPercent) ==
  FLess(rm.maxPositionSizePercent, positionRiskPercent)

\* A minimum of one half instead of the configured one.
PopViolationAtHalf(rm, trade) == FLess(trade.pop, Fin(1, 2))

\* trade.POP < rm.minProbabilityOfProfit
PopViolation(rm, trade) == FLess(trade.pop, rm.minProbabilityOfProfit)

\* The ratio taken over the signed loss.
RatioOverSignedLoss(trade) == FDiv(trade.maxProfit, trade.maxLoss)

\* trade.MaxProfit / math.Abs(trade.MaxLoss)
RiskRewardRatio(trade) == FDiv(trade.maxProfit, MathAbs(trade.maxLoss))

RatioViolation(trade) == FLess(RiskRewardRatio(trade), Fin(33, 100))

getStrategyRiskScore(strategy) ==
  CASE strategy = "covered call" -> Fin(5, 1)
    [] strategy = "cash secured put" -> Fin(7, 1)
    [] strategy = "credit spread" -> Fin(10, 1)
    [] strategy = "iron condor" -> Fin(12, 1)
    [] strategy = "butterfly" -> Fin(15, 1)
    [] strategy = "naked option" -> Fin(20, 1)
    [] OTHER -> Fin(15, 1)

calculateRiskScore(rm, trade, positionRiskPercent) ==
  LET popScore == FMul(FSub(Fin(1, 1), trade.pop), Fin(30, 1))
      sizeScore ==
        FMul(FDiv(positionRiskPercent, rm.maxPositionSizePercent), Fin(30, 1))
      rrRatio == FDiv(trade.maxProfit, MathAbs(trade.maxLoss))
      rrScore == FMul(FDiv(Fin(1, 1), FAdd(rrRatio, Fin(1, 1))), Fin(20, 1))
      strategyScore == getStrategyRiskScore(trade.strategy)
      score == FAdd(FAdd(FAdd(FAdd(Fin(0, 1), popScore),
                              MathMin(sizeScore, Fin(30, 1))),
                         rrScore),
                    strategyScore)
  IN MathMin(score, Fin(100, 1))

\* The reason a check appends when it fires: the name of the check, and the
\* symbol for a concentration, in place of the formatted message.
Reason(fired, check) == IF fired THEN <<check>> ELSE <<>>

\* The checks of ValidateTrade that stop at the first one that fires.
FirstViolationOnly(rm, trade, positionRiskPercent) ==
  IF PositionViolation(rm, positionRiskPercent) THEN << <<"position">> >>
  ELSE IF PopViolation(rm, trade) THEN << <<"pop">> >>
  ELSE Reason(RatioViolation(trade), <<"rewardRisk">>)

\* The three checks of ValidateTrade, each appending its reason.
TradeViolations(rm, trade, positionRiskPercent) ==
  Reason(PositionViolation(rm, positionRiskPercent), <<"position">>)
    \o Reason(PopViolation(rm, trade), <<"pop">>)
    \o Reason(RatioViolation(trade), <<"rewardRisk">>)

\* The *TradeValidation ValidateTrade returns: IsValid starts true and is set
\* to false by each check that fires.
TradeValidation(rm, trade, portfolio) ==
  LET positionRiskPercent ==
        PositionRiskPercent(trade, PortfolioValue(portfolio))
  IN [ isValid |-> ~ \/ PositionViolation(rm, positionRiskPercent)
                     \/ PopViolation(rm, trade)
                     \/ RatioViolation(trade),
       violations |-> TradeViolations(rm, trade, positionRiskPercent),
       riskScore |-> calculateRiskScore(rm, trade, positionRiskPercent),
       requiresApproval |-> rm.requireManualApproval ]

RECURSIVE TotalRisk(_)
TotalRisk(trades) ==
  IF trades = <<>>
    THEN Fin(0, 1)
    ELSE FAdd(TotalRisk(SubSeq(trades, 1, Len(trades) - 1)),
              MathAbs(trades[Len(trades)].maxLoss))

\* A map that keeps the risk of the last trade of the symbol
\* (symbolRisk[trade.Ticker] = risk).
SymbolRiskOfLast(trades, symbol) ==
  LET own == SelectSeq(trades, LAMBDA t : t.ticker = symbol)
  IN IF own = <<>> THEN Fin(0, 1) ELSE MathAbs(own[Len(own)].maxLoss)

\* symbolRisk[symbol] after the loop over the trades.
SymbolRisk(trades, symbol) ==
  TotalRisk(SelectSeq(trades, LAMBDA t : t.ticker = symbol))

\* The keys of symbolRisk.
Symbols(trades) == {trades[i].ticker : i \in 1..Len(trades)}

\* The orders in which `range symbolRisk` can visit the keys.
Orders(keys) ==
  { o \in SeqsUpTo(keys, Cardinality(keys)) :
      /\ Len(o) = Cardinality(keys)
      /\ \A i, j \in 1..Len(o) : i # j => o[i] # o[j] }

\* A total that violates the limit when it reaches it.
TotalRiskAtLimit(rm, totalRiskPercent) ==
  ~FLess(totalRiskPercent, rm.maxPortfolioRiskPercent)

\* totalRiskPercent > rm.maxPortfolioRiskPercent
TotalRiskViolation(rm, totalRiskPercent) ==
  FLess(rm.maxPortfolioRiskPercent, totalRiskPercent)

ConcentrationViolation(rm, risk0, portfolioValue) ==
  FLess(rm.maxConcentrationPercent,
        FMul(FDiv(risk0, portfolioValue), Fin(100, 1)))

RECURSIVE ConcentrationViolations(_, _, _, _)
ConcentrationViolations(rm, trades, portfolioValue, order) ==
  IF order = <<>>
    THEN <<>>
    ELSE Reason(ConcentrationViolation(rm, SymbolRisk(trades, Head(order)),
                                       portfolioValue),
                <<"concentration", Head(order)>>)
           \o ConcentrationViolations(rm, trades, portfolioValue, Tail(order))

\* The *TradeValidation ValidatePortfolio returns when the map is visited in
\* `order`: RequiresApproval and RiskScore keep their zero values.
PortfolioValidation(rm, trades, portfolio, order) ==
  LET portfolioValue == PortfolioValue(portfolio)
      totalRiskPercent ==
        FMul(FDiv(TotalRisk(trades), portfolioValue), Fin(100, 1))
  IN [ isValid |->
         ~ \/ TotalRiskViolation(rm, totalRiskPercent)
           \/ \E symbol \in Symbols(trades) :
                ConcentrationViolation(rm, SymbolRisk(trades, symbol),
                                       portfolioValue),
       violations |->
         Reason(TotalRiskViolation(rm, totalRiskPercent), <<"totalRisk">>)
           \o ConcentrationViolations(rm, trades, portfolioValue, order),
       riskScore |-> Fin(0, 1),
       requiresApproval |-> FALSE ]

\* A call of the risk manager that has not returned.
Pending(op, trades, portfolio) ==
  [NoValidation EXCEPT !.op = op, !.trades = trades, !.portfolio = portfolio]

\* One call of the manager NewRiskManager built, with its arguments.
RiskInit ==
  /\ StoreInit
  /\ query = NoQuery
  /\ norm = NoParse
  /\ \/ \E trade \in Trades, portfolio \in Portfolios :
          risk = Pending("ValidateTrade", <<trade>>, portfolio)
     \/ \E trades \in Baskets, portfolio \in Portfolios :
          risk = Pending("ValidatePortfolio", trades, portfolio)

\* ValidateTrade(trade, portfolio) runs and returns.
ValidateTrade ==
  /\ risk.op = "ValidateTrade"
  /\ ~risk.returned
  /\ risk' = [risk EXCEPT
                !.returned = TRUE,
                !.result = TradeValidation(NewRiskManager, risk.trades[1],
                                           risk.portfolio)]
  /\ UNCHANGED <<store, conc, query, norm>>

\* ValidatePortfolio(trades, portfolio) runs and returns; the map symbolRisk
\* is visited in any order.
ValidatePortfolio ==
  /\ risk.op = "ValidatePortfolio"
  /\ ~risk.returned
  /\ \E order \in Orders(Symbols(risk.trades)) :
       risk' = [risk EXCEPT
                  !.returned = TRUE,
                  !.result = PortfolioValidation(NewRiskManager, risk.trades,
                                                 risk.portfolio, order)]
  /\ UNCHANGED <<store, conc, query, norm>>

RiskNext ==
  \/ ValidateTrade
  \/ ValidatePortfolio

RiskSpec == RiskInit /\ [][RiskNext]_vars

\* ------------------------------------------------------------ the normalizer

\* Longest response text handed to parseRecommendations, in symbols.
MaxResponse == 6

\* The symbols of a response: the brackets, a JSON object with the fields of
\* a TradeRecommendation ("o"), the comma, the word Ticker ("T"), the pipe,
\* the rule --- ("-") and the line feed ("n").
Alphabet == {"[", "]", "o", ",", "T", "|", "-", "n"}

Responses == UNION {[1..len -> Alphabet] : len \in 0..MaxResponse}

\* strings.Index(s, c), counted from 1; 0 when c does not occur.
Index(s, c) ==
  LET hits == {i \in 1..Len(s) : s[i] = c}
  IN IF hits = {} THEN 0 ELSE CHOOSE i \in hits : \A j \in hits : i <= j

\* strings.LastIndex(s, c), counted from 1; 0 when c does not occur.
LastIndex(s, c) ==
  LET hits == {i \in 1..Len(s) : s[i] = c}
  IN IF hits = {} THEN 0 ELSE CHOOSE i \in hits : \A j \in hits : i >= j

\* strings.Contains(s, c)
Contains(s, c) == Index(s, c) # 0

\* strings.Split(s, sep)
RECURSIVE Split(_, _)
Split(s, sep) ==
  LET i == Index(s, sep)
  IN IF i = 0
       THEN <<s>>
       ELSE <<SubSeq(s, 1, i - 1)>> \o Split(SubSeq(s, i + 1, Len(s)), sep)

\* The first place from i on that holds no JSON white space.
RECURSIVE SkipSpace(_, _)
SkipSpace(s, i) ==
  IF i <= Len(s) /\ s[i] = "n" THEN SkipSpace(s, i + 1) ELSE i

\* The JSON scanner on the value that starts at i: the place after the value,
\* 0 for a syntax error.  ScanElements starts at an element of an array and
\* ends after the array's closing bracket.
RECURSIVE ScanValue(_, _), ScanElements(_, _)
ScanValue(s, i) ==
  IF i > Len(s) THEN 0
  ELSE IF s[i] = "o" THEN i + 1
  ELSE IF s[i] = "["
    THEN LET j == SkipSpace(s, i + 1)
         IN IF j <= Len(s) /\ s[j] = "]" THEN j + 1 ELSE ScanElements(s, j)
  ELSE 0

ScanElements(s, i) ==
  LET a == ScanValue(s, i)
      j == SkipSpace(s, a)
  IN IF a = 0 \/ j > Len(s) THEN 0
     ELSE IF s[j] = "," THEN ScanElements(s, SkipSpace(s, j + 1))
     ELSE IF s[j] = "]" THEN j + 1
     ELSE 0

\* A candidate decoded from a JSON object.
FromObject == [ticker |-> <<"o">>, strategy |-> <<"o">>]

\* json.Unmarshal([]byte(jsonStr), &recommendations), jsonStr running from a
\* "[" to a "]": an error for text that is not one JSON value and for an
\* element that is an array; else one candidate for each object.
UnmarshalCandidates(jsonStr) ==
  LET objects == SelectSeq(jsonStr, LAMBDA c : c = "o")
      ok == /\ ScanValue(jsonStr, 1) = Len(jsonStr) + 1
            /\ \A i \in 2..Len(jsonStr) : jsonStr[i] # "["
  IN [ recommendations |-> [i \in 1..Len(objects) |-> FromObject],
       err |-> ~ok ]

\* The loop of parseTableFormat over the lines that are left: the candidates
\* of the rows with five cells or more that follow a line with Ticker.
RECURSIVE TableRows(_, _)
TableRows(lines, inTable) ==
  IF lines = <<>> THEN <<>>
  ELSE LET line == Head(lines)
           parts == Split(line, "|")
       IN IF line = <<>> \/ Contains(line, "T") \/ Contains(line, "-")
            THEN TableRows(Tail(lines), inTable \/ Contains(line, "T"))
          ELSE IF ~inTable
            THEN TableRows(Tail(lines), inTable)
          ELSE IF Len(parts) >= 5
            THEN <<[ticker |-> parts[1], strategy |-> parts[2]]>>
                   \o TableRows(Tail(lines), inTable)
          ELSE TableRows(Tail(lines), inTable)

parseTableFormat(response) ==
  LET recommendations == TableRows(Split(response, "n"), FALSE)
  IN [ recommendations |-> recommendations,
       err |-> recommendations = <<>> ]

\* What parseRecommendations(response) returns.
Recommendations(response) ==
  LET startIdx == Index(response, "[")
      endIdx == LastIndex(response, "]")
      decoded == UnmarshalCandidates(SubSeq(response, startIdx, endIdx))
  IN IF startIdx # 0 /\ endIdx # 0 /\ endIdx > startIdx
       THEN IF decoded.err THEN parseTableFormat(response)
            ELSE [recommendations |-> decoded.recommendations, err |-> FALSE]
       ELSE parseTableFormat(response)

\* One call of parseRecommendations, with the response it is handed.
ParseInit ==
  /\ StoreInit
  /\ query = NoQuery
  /\ risk = NoValidation
  /\ \E response \in Responses :
       norm = [NoParse EXCEPT !.op = "parseRecommendations",
                              !.response = response]

\* parseRecommendations(response) runs and returns.
parseRecommendations ==
  /\ norm.op = "parseRecommendations"
  /\ ~norm.returned
  /\ norm' = [norm EXCEPT
                !.returned = TRUE,
                !.recommendations = Recommendations(norm.response).recommendations,
                !.err = Recommendations(norm.response).err]
  /\ UNCHANGED <<store, conc, query, risk>>

ParseNext == parseRecommendations

ParseSpec == ParseInit /\ [][ParseNext]_vars

\* ------------------------------------------------------------- the drawdown

\* Longest slice of returns handed to calculateMaxDrawdown.
MaxReturns == 3

\* The returns of the slice, in dollars: a loss, nothing, two gains.
ReturnValues == {Fin(0 - 50, 1), Fin(0, 1), Fin(30, 1), Fin(100, 1)}

\* One call of calculateMaxDrawdown, with the slice it is handed.
DrawdownInit ==
  /\ StoreInit
  /\ risk = NoValidation
  /\ norm = NoParse
  /\ \E returns \in SeqsUpTo(ReturnValues, MaxReturns) :
       query = [NoQuery EXCEPT !.op = "calculateMaxDrawdown",
                               !.returns = returns]

\* calculateMaxDrawdown(returns) runs and returns.
CallMaxDrawdown ==
  /\ query.op = "calculateMaxDrawdown"
  /\ ~query.returned
  /\ query' = [query EXCEPT
                 !.returned = TRUE,
                 !.metrics = [NoMetrics EXCEPT
                                !.maxDrawdown =
                                  calculateMaxDrawdown(query.returns)]]
  /\ UNCHANGED <<store, conc, risk, norm>>

DrawdownNext == CallMaxDrawdown

DrawdownSpec == DrawdownInit /\ [][DrawdownNext]_vars

\* ------------------------------------------------------------- properties

\* The records of the current partition as stored.
Stored == files[currentFile].items

IdsOf(records) == [i \in 1..Len(records) |-> records[i].id]

IsPrefix(s, t) == Len(s) <= Len(t) /\ SubSeq(t, 1, Len(s)) = s

\* C1: when UpdateExecution(id, true) and then UpdateTradeResult(id, p) have
\* both returned nil, every stored record that bears this id is closed and
\* executed, has executionTime and exitTime set, and actualProfit equal to p.
C1_Lifecycle ==
  [][ ( /\ last.op = "UpdateExecution" /\ last.executed /\ ~last.err
        /\ last'.op = "UpdateTradeResult" /\ ~last'.err
        /\ last'.after = "UpdateExecution"
        /\ last'.id = last.id )
      => \A i \in 1..Len(Stored') :
           Stored'[i].id = last'.id =>
             /\ Stored'[i].status = "closed"
             /\ Stored'[i].executed
             /\ Stored'[i].executionTime # Nil
             /\ Stored'[i].exitTime # Nil
             /\ Stored'[i].actualProfit = Ptr(last'.profit) ]_vars

\* C2: an update call that returns nil leaves the status of every record that
\* was closed or expired as it was.
C2_ClosedIsFinal ==
  [][ (last'.op \in Updates /\ ~last'.err)
      => \A i \in 1..Len(Stored) :
           Stored[i].status \in {"closed", "expired"} =>
             /\ i <= Len(Stored')
             /\ Stored'[i].status = Stored[i].status ]_vars

\* C5: no two records of the partition share an id.
C5_UniqueIds ==
  \A i, j \in 1..Len(Stored) : i # j => Stored[i].id # Stored[j].id

\* C6: GetRecommendationHistory(1) right after a RecordRecommendation(c) that
\* returned a record returns exactly that record, which embeds c, is pending
\* and is not executed.
C6_RoundTrip ==
  [][ ( /\ last.op = "RecordRecommendation" /\ ~last.err
        /\ last'.op = "GetRecommendationHistory" /\ last'.limit = 1
        /\ last'.after = "RecordRecommendation" )
      => /\ ~last'.err
         /\ Len(last'.out) = 1
         /\ last'.out = last.out
         /\ last'.out[1].recommendation = last.rec
         /\ last'.out[1].status = "pending"
         /\ last'.out[1].executed = FALSE ]_vars

\* GetRecommendationHistory(1) has returned right after RecordRecommendation
\* appended to a partition that already held a record.
C6_Witness ==
  /\ last.op = "GetRecommendationHistory" /\ last.limit = 1 /\ ~last.err
  /\ last.after = "RecordRecommendation"
  /\ Len(Stored) = 2
  /\ Len(last.out) = 1

\* C7: a call that returns nil keeps the ids stored before as a prefix of the
\* ids stored after; RecordRecommendation adds exactly one id at the end, an
\* update leaves the ids as they were.
C7_OnlyGrows ==
  [][ ~last'.err
      => /\ IsPrefix(IdsOf(Stored), IdsOf(Stored'))
         /\ last'.op = "RecordRecommendation" =>
              Len(Stored') = Len(Stored) + 1
         /\ last'.op \in Updates => IdsOf(Stored') = IdsOf(Stored) ]_vars

\* RecordRecommendation has appended a second record to the partition.
C7_Witness ==
  /\ last.op = "RecordRecommendation" /\ ~last.err
  /\ Len(Stored) = 2

\* C8: a record's executionTime is present exactly when it is executed.
C8_ExecutionTimeIffExecuted ==
  \A i \in 1..Len(Stored) :
    (Stored[i].executionTime # Nil) <=> Stored[i].executed

\* C9: a record's exitTime and actualProfit are present exactly when its
\* status is closed.
C9_ExitIffClosed ==
  \A i \in 1..Len(Stored) :
    /\ (Stored[i].exitTime # Nil) <=> (Stored[i].status = "closed")
    /\ (Stored[i].actualProfit # Nil) <=> (Stored[i].status = "closed")

\* C10: an update call whose id is not in the partition and that returns nil
\* leaves every file of the data directory, and which files exist, as it was.
C10_UnknownIdIsNoOp ==
  [][ (last'.op \in Updates /\ ~last'.found /\ ~last'.err)
      => files' = files ]_vars

\* The goroutines inside the load-mutate-save section of a writer.
Writing == {p \in Procs : pc[p] \in {"load", "save", "unlock"}}

\* The goroutines inside the read section of a reader.
Reading == {p \in Procs : pc[p] \in {"read", "runlock"}}

\* C3: at most one goroutine is inside a writer's load-mutate-save section,
\* and while one is, none is inside a read section.
C3_WritersExclude ==
  /\ Cardinality(Writing) <= 1
  /\ Writing # {} => Reading = {}

\* Two goroutines are inside their read sections at the same time, one in
\* GetMetrics and one in GetRecommendationHistory, while the partition holds
\* a record.
C3_Witness ==
  /\ Reading = Procs
  /\ \E p, q \in Procs :
       req[p] = "GetMetrics" /\ req[q] = "GetRecommendationHistory"
  /\ Len(Stored) > 0

\* C4: as long as no call has returned an error, the partition holds exactly
\* the records, with exactly the fields, that the writers' calls produce when
\* they take effect one after the other.
C4_NoLostUpdate == ~failed => Stored = ledger

\* A writer is about to save into a partition of two records, one of them
\* closed, while the other goroutine's writer waits for the lock.
C4_Witness ==
  /\ ~failed
  /\ Len(Stored) = 2
  /\ \E i \in 1..Len(Stored) : Stored[i].status = "closed"
  /\ \E p, q \in Procs :
       /\ pc[p] = "save"
       /\ pc[q] = "wait" /\ req[q] \in WriterOps

\* --------------------------------------------- properties of the risk manager

\* The call of `op` has returned.
Returned(op) == risk.op = op /\ risk.returned

\* The trade handed to ValidateTrade.
Trade == risk.trades[1]

Range(s) == {s[i] : i \in 1..Len(s)}

\* The portfolio value of the snapshot, in dollars, with the documented
\* default for a missing or non-positive one.
Value(portfolio) ==
  IF portfolio.kind = "float64" /\ portfolio.v.n > 0
    THEN portfolio.v.n
    ELSE 100000

\* |maxLoss| in dollars.
Loss(trade) == Magnitude(trade.maxLoss.n)

\* maxProfit / |maxLoss| < 0.33 (a negative profit over a zero loss is -Inf).
RatioBelowThird(trade) ==
  IF Loss(trade) = 0
    THEN trade.maxProfit.n < 0
    ELSE 100 * trade.maxProfit.n < 33 * Loss(trade)

\* maxProfit / |maxLoss| >= 0.33 (a positive profit over a zero loss is +Inf).
RatioAtLeastThird(trade) ==
  IF Loss(trade) = 0
    THEN trade.maxProfit.n > 0
    ELSE 100 * trade.maxProfit.n >= 33 * Loss(trade)

\* probabilityOfProfit < minProbabilityOfProfit
PopBelowMinimum(trade) ==
  trade.pop.n * NewRiskManager.minProbabilityOfProfit.d
    < NewRiskManager.minProbabilityOfProfit.n * trade.pop.d

\* |maxLoss| / portfolioValue * 100 > maxPositionSizePercent
PositionAboveLimit(trade, portfolio) ==
  Loss(trade) * 100 * NewRiskManager.maxPositionSizePercent.d
    > NewRiskManager.maxPositionSizePercent.n * Value(portfolio)

RECURSIVE LossSum(_)
LossSum(trades) ==
  IF trades = <<>> THEN 0 ELSE Loss(Head(trades)) + LossSum(Tail(trades))

\* C11: the riskScore ValidateTrade returns is a number from 0 to 100.
C11_RiskScoreInRange ==
  Returned("ValidateTrade") =>
    /\ risk.result.riskScore.k = "fin"
    /\ 0 <= risk.result.riskScore.n
    /\ risk.result.riskScore.n <= 100 * risk.result.riskScore.d

\* C12: ValidateTrade of a candidate whose probabilityOfProfit is below
\* minProbabilityOfProfit returns isValid = false with a POP reason among its
\* violations, whatever the other fields and the portfolio snapshot.
C12_PopBelowMinimumFails ==
  (Returned("ValidateTrade") /\ PopBelowMinimum(Trade)) =>
    /\ ~risk.result.isValid
    /\ <<"pop">> \in Range(risk.result.violations)

\* ValidateTrade has rejected a candidate for its POP alone.
C12_Witness ==
  /\ Returned("ValidateTrade")
  /\ PopBelowMinimum(Trade)
  /\ risk.result.violations = << <<"pop">> >>
  /\ ~risk.result.isValid

\* C13: ValidateTrade of a candidate with maxProfit/|maxLoss| < 0.33 returns
\* isValid = false with a reward/risk reason, whatever its POP; a candidate
\* whose ratio is at least 0.33 gets no reward/risk reason.
C13_RewardRiskBelowThirdFails ==
  Returned("ValidateTrade") =>
    /\ RatioBelowThird(Trade) =>
         /\ ~risk.result.isValid
         /\ <<"rewardRisk">> \in Range(risk.result.violations)
    /\ RatioAtLeastThird(Trade) =>
         <<"rewardRisk">> \notin Range(risk.result.violations)

\* ValidateTrade has rejected a candidate with a POP of 1 for its ratio alone.
C13_Witness ==
  /\ Returned("ValidateTrade")
  /\ RatioBelowThird(Trade)
  /\ Loss(Trade) > 0
  /\ Trade.pop = Fin(1, 1)
  /\ risk.result.violations = << <<"rewardRisk">> >>

\* C14: ValidatePortfolio reports a total-risk violation exactly when the sum
\* of |maxLoss| over the basket, divided by portfolioValue and times 100, is
\* above maxPortfolioRiskPercent; with portfolioValue 10,000 a basket of N
\* candidates of maxLoss -100 is valid exactly when N <= 2.
C14_TotalRiskAboveLimit ==
  Returned("ValidatePortfolio") =>
    /\ <<"totalRisk">> \in Range(risk.result.violations)
         <=> ( LossSum(risk.trades) * 100
                 * NewRiskManager.maxPortfolioRiskPercent.d
               > NewRiskManager.maxPortfolioRiskPercent.n
                   * Value(risk.portfolio) )
    /\ ( /\ risk.portfolio = [kind |-> "float64", v |-> Fin(10000, 1)]
         /\ \A i \in 1..Len(risk.trades) :
              risk.trades[i].maxLoss = Fin(0 - 100, 1) )
       => (risk.result.isValid <=> Len(risk.trades) <= 2)

\* ValidatePortfolio has accepted two candidates of maxLoss -100 for a
\* portfolio of 10,000: a total of exactly 2%.
C14_Witness ==
  /\ Returned("ValidatePortfolio")
  /\ risk.portfolio = [kind |-> "float64", v |-> Fin(10000, 1)]
  /\ Len(risk.trades) = 2
  /\ \A i \in 1..Len(risk.trades) : risk.trades[i].maxLoss = Fin(0 - 100, 1)
  /\ risk.result.isValid

\* C15: the violations of ValidateTrade are one reason for each of the checks
\* position size, POP and reward/risk that fired, in that order; isValid of
\* ValidateTrade and of ValidatePortfolio is true exactly when violations is
\* empty.
C15_AllChecksReported ==
  /\ Returned("ValidateTrade") =>
       risk.result.violations =
         Reason(PositionAboveLimit(Trade, risk.portfolio), <<"position">>)
           \o Reason(PopBelowMinimum(Trade), <<"pop">>)
           \o Reason(RatioBelowThird(Trade), <<"rewardRisk">>)
  /\ risk.returned =>
       (risk.result.isValid <=> risk.result.violations = <<>>)

\* ValidateTrade has returned all three reasons at once.
C15_Witness ==
  /\ Returned("ValidateTrade")
  /\ PositionAboveLimit(Trade, risk.portfolio)
  /\ PopBelowMinimum(Trade)
  /\ RatioBelowThird(Trade)
  /\ Len(risk.result.violations) = 3

\* C16: the requiresApproval of every validation, of ValidateTrade and of
\* ValidatePortfolio, equals the manager's requireManualApproval.
C16_ApprovalMirrorsSetting ==
  risk.returned =>
    risk.result.requiresApproval = NewRiskManager.requireManualApproval

\* C22: what ValidateTrade and ValidatePortfolio return is a function of their
\* arguments and the manager's limits, the violations in the same order at
\* every call, also when several tickers are above the concentration limit;
\* and a call leaves the ledger as it was.
C22_SameInputsSameResult ==
  /\ Returned("ValidateTrade") =>
       risk.result = TradeValidation(NewRiskManager, Trade, risk.portfolio)
  /\ Returned("ValidatePortfolio") =>
       \A order \in Orders(Symbols(risk.trades)) :
         risk.result = PortfolioValidation(NewRiskManager, risk.trades,
                                           risk.portfolio, order)
  /\ risk.returned =>
       /\ last = NoCall
       /\ \A m \in DOMAIN files : files[m] = NoFile

\* How often x occurs in s.
Count(s, x) == Cardinality({i \in 1..Len(s) : s[i] = x})

\* The sum of |maxLoss|, in dollars, over the candidates of the basket on the
\* ticker.
TickerLossSum(trades, symbol) ==
  LossSum(SelectSeq(trades, LAMBDA t : t.ticker = symbol))

\* C26: ValidatePortfolio reports exactly one concentration violation for each
\* ticker whose |maxLoss| summed over the basket, divided by portfolioValue
\* and times 100, is above maxConcentrationPercent, and none for any other.
C26_ConcentrationPerTicker ==
  Returned("ValidatePortfolio") =>
    \A symbol \in Tickers :
      Count(risk.result.violations, <<"concentration", symbol>>)
        = IF TickerLossSum(risk.trades, symbol) * 100
               * NewRiskManager.maxConcentrationPercent.d
             > NewRiskManager.maxConcentrationPercent.n * Value(risk.portfolio)
            THEN 1 ELSE 0

\* ValidatePortfolio has reported the concentration in a ticker on which the
\* basket holds three candidates, none of them above the limit alone.
C26_Witness ==
  /\ Returned("ValidatePortfolio")
  /\ Len(risk.trades) = 3
  /\ \A i \in 1..Len(risk.trades) :
       /\ risk.trades[i].ticker = "SPY"
       /\ Loss(risk.trades[i]) * 100 * NewRiskManager.maxConcentrationPercent.d
            <= NewRiskManager.maxConcentrationPercent.n * Value(risk.portfolio)
  /\ Count(risk.result.violations, <<"concentration", "SPY">>) = 1
  /\ <<"concentration", "QQQ">> \notin Range(risk.result.violations)

\* ------------------------------------------------ properties of the normalizer

\* C17: parseRecommendations returns at least one candidate or an error.
C17_NeverEmptySuccess ==
  (norm.returned /\ ~norm.err) => Len(norm.recommendations) >= 1

\* ------------------------------------------------- properties of the reads

\* The stored records, as <<month, index>>, of the partitions whose month lies
\* from the month of s to the month of e and whose timestamp is strictly
\* between s and e.
StoredBetween(s, e) ==
  { mi \in (DOMAIN files) \X (1..MaxRecords) :
      /\ MonthOf(s) <= mi[1] /\ mi[1] <= MonthOf(e)
      /\ mi[2] <= Len(files[mi[1]].items)
      /\ files[mi[1]].items[mi[2]].timestamp > s
      /\ files[mi[1]].items[mi[2]].timestamp < e }

\* C18: the totalRecommendations of GetMetrics(start, end) counts every stored
\* record of the partitions of the months from start's to end's whose
\* timestamp is strictly between start and end, and no other.
C18_EveryMonthVisited ==
  query.op = "GetMetrics" =>
    query.metrics.totalRecommendations
      = Cardinality(StoredBetween(query.startDate, query.endDate))

\* The data directory with every missing or unreadable partition empty.
Tolerated ==
  [m \in DOMAIN files |->
     IF files[m].kind \in {"absent", "unreadable"} THEN JsonNull ELSE files[m]]

\* C19: a missing or unreadable partition is an empty partition to the reads:
\* GetMetrics returns no error and the metrics of the other partitions, and
\* GetRecommendationHistory on such a current partition returns no record
\* and no error.
C19_MissingIsEmpty ==
  /\ query.op = "GetMetrics" =>
       /\ ~query.err
       /\ query.metrics =
            Metrics(loadRecordsForPeriod(Tolerated, query.startDate,
                                         query.endDate),
                    query.metrics.byTimeframe.daily.endDate,
                    query.metrics.byTimeframe.weekly.endDate,
                    query.metrics.byTimeframe.monthly.endDate)
  /\ ( /\ last.op = "GetRecommendationHistory"
       /\ files[currentFile].kind \in {"absent", "unreadable"} )
     => (~last.err /\ last.out = <<>>)

\* C20: a writer that returns nil has persisted its mutation: the partition
\* holds the records it loaded with the new record appended, or with the
\* update applied; and RecordRecommendation returns a record exactly when it
\* returns nil.
C20_WriteFailureReported ==
  [][ /\ (last'.op \in WriterOps /\ ~last'.err) =>
           /\ files'[currentFile] = MarshalIndent(Stored')
           /\ last'.op = "RecordRecommendation" =>
                /\ Len(last'.out) = 1
                /\ Stored' = Append(Stored, last'.out[1])
           /\ last'.op = "UpdateExecution" =>
                Stored' = ApplyExecution(Stored, last'.id, last'.executed, now')
           /\ last'.op = "UpdateTradeResult" =>
                Stored' = ApplyResult(Stored, last'.id, last'.profit, now')
      /\ (last'.op = "RecordRecommendation" /\ last'.err) => last'.out = <<>>
    ]_vars

\* The first call of all, a RecordRecommendation on a partition that was never
\* created, has returned an error after its write failed half way.
C20_Witness ==
  /\ last.op = "RecordRecommendation"
  /\ last.after = "none"
  /\ last.err
  /\ last.out = <<>>
  /\ files[currentFile] = Malformed

RECURSIVE Cumulative(_, _)
Cumulative(returns, i) ==
  IF i = 0 THEN 0 ELSE Cumulative(returns, i - 1) + returns[i].n

\* The largest sum reached within the first i returns, 0 before any gain.
Peak(returns, i) ==
  LET sums == {Cumulative(returns, j) : j \in 0..i}
  IN CHOOSE m \in sums : \A x \in sums : x <= m

\* C21: calculateMaxDrawdown returns 100 times the largest (peak -
\* cumulative) / peak over the steps whose peak is positive, and 0 when there
\* is no such step; 50 for [100, -50, 30].
C21_DrawdownOverPositivePeaks ==
  (query.op = "calculateMaxDrawdown" /\ query.returned) =>
    LET returns == query.returns
        r == query.metrics.maxDrawdown
        steps == {i \in 1..Len(returns) : Peak(returns, i) > 0}
        Down(i) == 100 * (Peak(returns, i) - Cumulative(returns, i))
    IN /\ r.k = "fin"
       /\ r.n >= 0
       /\ \A i \in steps : r.n * Peak(returns, i) >= Down(i) * r.d
       /\ r.n > 0 => \E i \in steps : r.n * Peak(returns, i) = Down(i) * r.d
       /\ returns = <<Fin(100, 1), Fin(0 - 50, 1), Fin(30, 1)>> =>
            r = Fin(50, 1)

\* --------------------------------------------- properties of a session

\* GetMetrics has returned.
Queried == query.op = "GetMetrics" /\ query.returned

\* The stored records of the whole data directory, as <<month, index>>, whose
\* timestamp is strictly between s and e.
StoredAnywhereBetween(s, e) ==
  { mi \in (DOMAIN files) \X (1..MaxRecords) :
      /\ mi[2] <= Len(files[mi[1]].items)
      /\ files[mi[1]].items[mi[2]].timestamp > s
      /\ files[mi[1]].items[mi[2]].timestamp < e }

\* C23: every record is stored in the partition of the month of its own
\* timestamp, so that GetMetrics over a range inside one month counts every
\* record created in that range.
C23_PartitionOfCreationMonth ==
  /\ \A m \in DOMAIN files :
       \A i \in 1..Len(files[m].items) :
         MonthOf(files[m].items[i].timestamp) = m
  /\ (Queried /\ MonthOf(query.startDate) = MonthOf(query.endDate)) =>
       query.metrics.totalRecommendations
         = Cardinality(StoredAnywhereBetween(query.startDate, query.endDate))

\* The records GetMetrics loaded for its range.
Loaded == loadRecordsForPeriod(files, query.startDate, query.endDate)

\* The closed records among them, executed or not.
Closed(records) == SelectSeq(records, LAMBDA r : r.status = "closed")

\* C24: totalReturn is the sum of actualProfit over the closed records of the
\* range, and winningTrades and losingTrades are the numbers of closed records
\* of the range with a positive and with a negative actualProfit, whether or
\* not the record is executed.
C24_ClosedRecordsCounted ==
  Queried =>
    /\ query.metrics.totalReturn = Fin(SumProfit(Closed(Loaded)), 1)
    /\ query.metrics.winningTrades
         = Len(SelectSeq(Closed(Loaded), LAMBDA r : r.actualProfit[1] > 0))
    /\ query.metrics.losingTrades
         = Len(SelectSeq(Closed(Loaded), LAMBDA r : r.actualProfit[1] < 0))

\* The window reports the trades of the `days` days that end at the query's
\* end instant.
EndsAtQueryEnd(window, days) ==
  LET trailing == calculateTimeframeMetrics(Loaded, days, query.endDate)
  IN /\ window.tradeCount = trailing.tradeCount
     /\ window.winRate = trailing.winRate
     /\ window.return = trailing.return

\* C25: the daily, weekly and monthly windows GetMetrics(start, end) reports
\* hold the trade count, win rate and return of the records in the 1, 7 and
\* 30 days that end at `end`, whatever the time of the call.
C25_WindowsEndAtQueryEnd ==
  Queried =>
    /\ EndsAtQueryEnd(query.metrics.byTimeframe.daily, 1)
    /\ EndsAtQueryEnd(query.metrics.byTimeframe.weekly, 7)
    /\ EndsAtQueryEnd(query.metrics.byTimeframe.monthly, 30)

\* C28: in every result of GetMetrics, winningTrades + losingTrades <=
\* executedTrades <= totalRecommendations, winRate is a number from 0 to 100,
\* and winRate and averageReturn are 0 when executedTrades is 0.
C28_CountersAndRatesBounded ==
  Queried =>
    LET m == query.metrics
    IN /\ m.winningTrades + m.losingTrades <= m.executedTrades
       /\ m.executedTrades <= m.totalRecommendations
       /\ m.winRate.k = "fin"
       /\ 0 <= m.winRate.n
       /\ m.winRate.n <= 100 * m.winRate.d
       /\ m.executedTrades = 0 =>
            (m.winRate = Fin(0, 1) /\ m.averageReturn = Fin(0, 1))

\* GetMetrics has returned for a range that holds two records, neither of
\* them executed and one of them closed with a profit.
C28_Witness ==
  /\ Queried
  /\ query.metrics.totalRecommendations = 2
  /\ query.metrics.executedTrades = 0
  /\ \E r \in Range(Loaded) : r.actualProfit # Nil /\ r.actualProfit[1] > 0

\* C29: a writer that finds the partition of the tracker unreadable or
\* malformed returns the error and leaves every file as it was.
C29_LoadFailureWritesNothing ==
  [][ ( /\ last'.op \in WriterOps
        /\ query' = query
        /\ files[currentFile].kind \in {"unreadable", "malformed"} )
      => (last'.err /\ files' = files) ]_vars

\* UpdateExecution has returned an error right after RecordRecommendation, on
\* a partition that cannot be read.
C29_Witness ==
  /\ files[currentFile] = Unreadable
  /\ last.op = "UpdateExecution"
  /\ last.after = "RecordRecommendation"
  /\ last.err

\* --------------------------------------------- properties of fair scheduling

\* C30: under fair scheduling every call of the tracker that has started
\* returns: the mutex is released on every return, with or without an error.
C30_EveryCallReturns ==
  \A p \in Procs : (pc[p] # "idle") ~> (pc[p] = "idle")

\* A writer is about to return the error of a load that failed, still
\* holding the mutex, while a writer and no reader waits for it.
C30_Witness ==
  \E p, q \in Procs :
    /\ pc[p] = "unlock" /\ loc[p].err
    /\ files[currentFile] = Malformed
    /\ pc[q] = "wait"

====
